---- MODULE Spec2Model ----
(***************************************************************************)
(* A model of canpy/parser/dbc_parser.py: the DBCParser object, its line   *)
(* dispatcher (_parse_line), the record grammars (_parse_version,          *)
(* _parse_nodes, _parse_message, _parse_signal, _parse_description,        *)
(* _parse_bus_configuration, _parse_attribute_definition) and the          *)
(* continuation handler (_parse_multiline_description).                    *)
(*                                                                         *)
(* Text is a sequence of one-character strings; a token such as a number   *)
(* or a name that holds neither a quote, a semicolon nor white space may   *)
(* stand as one element.  The entity graph (canpy.can_bus) is kept as a    *)
(* store of objects: a message or a node referenced by the parser's mode   *)
(* stays alive when parse_file replaces the bus.                           *)
(***************************************************************************)
EXTENDS Integers, Sequences, FiniteSets, TLC

\* Bounds of the exploration.
MaxLines == 5     \* lines read over the whole life of the parser object
MaxParses == 2    \* calls of parse_file on the one parser object
MaxAppended == 1  \* lines without a terminator fed to one open description

VARIABLES
    canbus,                 \* self._canbus: index into buses
    buses,                  \* every CANBus object created so far
    nodes,                  \* every CANNode added to a bus
    messages,               \* every CANMessage added to a node, with its signals
    attribute_definitions,  \* the attribute definitions added to a bus
    mode,                   \* self._mode: <<tag, payload>>
    force_parser,           \* self._force_parser
    pc,                     \* where the caller of the parser is
    exc,                    \* the exception that ended the last parse_file call
    nparses,                \* parse_file calls so far
    nlines,                 \* lines read so far
    fed,                    \* the texts fed to the open description, one per line
    handler                 \* the handler the last line read was routed to

vars == <<canbus, buses, nodes, messages, attribute_definitions, mode,
          force_parser, pc, exc, nparses, nlines,
          fed, handler>>

graph == <<canbus, buses, nodes, messages, attribute_definitions>>

----------------------------------------------------------------------------
(* Text *)

Quote == "\""
Semi == ";"
NL == "\n"
Terminator == <<Quote, Semi>>

IsSpace(c) == c \in {" ", NL}

RECURSIVE LStrip(_)
LStrip(s) == IF s # << >> /\ IsSpace(Head(s)) THEN LStrip(Tail(s)) ELSE s

RECURSIVE RStrip(_)
RStrip(s) ==
    IF s # << >> /\ IsSpace(s[Len(s)]) THEN RStrip(SubSeq(s, 1, Len(s) - 1)) ELSE s

\* str.strip()
Strip(s) == RStrip(LStrip(s))

\* s[-2:] == '";'
LastTwoAreTerminator(s) ==
    Len(s) >= 2 /\ SubSeq(s, Len(s) - 1, Len(s)) = Terminator

\* str.replace('";', ''): every occurrence, left to right
RECURSIVE RemoveTerminators(_)
RemoveTerminators(s) ==
    IF Len(s) < 2 THEN s
    ELSE IF SubSeq(s, 1, 2) = Terminator
         THEN RemoveTerminators(SubSeq(s, 3, Len(s)))
         ELSE <<Head(s)>> \o RemoveTerminators(Tail(s))

\* 'x' in s, for the two-character terminator
RECURSIVE ContainsTerminator(_)
ContainsTerminator(s) ==
    IF Len(s) < 2 THEN FALSE
    ELSE SubSeq(s, 1, 2) = Terminator \/ ContainsTerminator(Tail(s))

\* str.startswith
StartsWith(s, p) == Len(p) <= Len(s) /\ SubSeq(s, 1, Len(p)) = p

----------------------------------------------------------------------------
(* The keyword table of __init__ *)

\* the keyword table with B in the place of BS_, a prefix of three other keys
Literal_with_prefix ==
    [VERSION |-> <<"V", "E", "R", "S", "I", "O", "N">>,
     BU_     |-> <<"B", "U", "_">>,
     BO_     |-> <<"B", "O", "_">>,
     SG_     |-> <<"S", "G", "_">>,
     CM_     |-> <<"C", "M", "_">>,
     BS_     |-> <<"B">>,
     BA_DEF_ |-> <<"B", "A", "_", "D", "E", "F", "_">>]

Literal ==
    [VERSION |-> <<"V", "E", "R", "S", "I", "O", "N">>,
     BU_     |-> <<"B", "U", "_">>,
     BO_     |-> <<"B", "O", "_">>,
     SG_     |-> <<"S", "G", "_">>,
     CM_     |-> <<"C", "M", "_">>,
     BS_     |-> <<"B", "S", "_">>,
     BA_DEF_ |-> <<"B", "A", "_", "D", "E", "F", "_">>]

keywords ==
    [VERSION |-> "parse_version",
     BU_     |-> "parse_nodes",
     BO_     |-> "parse_message",
     SG_     |-> "parse_signal",
     CM_     |-> "parse_description",
     BS_     |-> "parse_bus_configuration",
     BA_DEF_ |-> "parse_attribute_definition"]

\* the keys of the table that are the whole first word of the line
MatchingKeys_whole_word(l) == {k \in DOMAIN keywords : l.head = Literal[k]}

\* the keys of the table whose literal the line starts with (line.startswith(key))
MatchingKeys(l) == {k \in DOMAIN keywords : StartsWith(l.head \o l.text, Literal[k])}

----------------------------------------------------------------------------
(* Input lines.  A line is its head (the characters up to the first white  *)
(* space or colon), the text after the head, the field layout its body     *)
(* has ("none": the layout of no grammar) and the fields a grammar's       *)
(* pattern captures from a body of that layout.                            *)

Tilde == "~"    \* stands for field text holding no quote, semicolon or space

VersionLines ==
    {[head |-> Literal.VERSION, layout |-> "VERSION", version |-> "v1",
      text |-> <<" ", Quote, "v1", Quote>>]}

NodeLists == {<<"A">>, <<"A", "B">>}

NodeLines ==
    {[head |-> Literal.BU_, layout |-> "BU_", nodes |-> ns,
      text |-> <<":", " ", Tilde>>] : ns \in NodeLists}

\* BO_ 1 M: 8 A and BO_ 2 M: 8 B
Senders == {<<"1", "A">>, <<"2", "B">>}

MessageLines ==
    {[head |-> Literal.BO_, layout |-> "BO_", can_id |-> x[1], name |-> "M",
      length |-> "8", sender |-> x[2], text |-> <<" ", Tilde>>] : x \in Senders}

\* The fields of the signal records: the multiplexer part, the factor and the
\* receivers.
SignalFields ==
    {[is_multipexer |-> "None", multiplexer_id |-> "None", factor |-> "1",
      receivers |-> <<"A", "B">>],
     [is_multipexer |-> "M", multiplexer_id |-> "m1", factor |-> "1",
      receivers |-> <<"A">>],
     [is_multipexer |-> "None", multiplexer_id |-> "None", factor |-> "x",
      receivers |-> <<"A">>]}

SignalLines ==
    {[head |-> Literal.SG_, layout |-> "SG_", name |-> "s",
      is_multipexer |-> x.is_multipexer, multiplexer_id |-> x.multiplexer_id,
      start_bit |-> "0", length |-> "8", endianness |-> "1", sign |-> "+",
      factor |-> x.factor, receivers |-> x.receivers, text |-> <<" ", Tilde>>]
        : x \in SignalFields}

\* A description record: CM_, white space, the target marker, the can id, and
\* the rest of the line (the name, if any, and the quoted text).
CM(marker, can_id, rest) ==
    [head |-> Literal.CM_, layout |-> "CM_", marker |-> marker, can_id |-> can_id,
     rest |-> rest,
     text |-> <<" ">> \o (IF marker = "" THEN << >> ELSE <<marker, " ">>)
                     \o (IF can_id = "" THEN << >> ELSE <<can_id>>) \o rest]

DescriptionLines ==
    {CM("", "", <<Quote, "a", " ", "b", Quote, Semi>>),         \* CM_ "a b";
     CM("", "", <<Quote, "a">>),                                \* CM_ "a
     CM("SG_", "1", <<" ", "s", " ", Quote, "a", Quote, Semi>>),\* CM_ SG_ 1 s "a";
     CM("BU_", "", <<"A", " ", Quote, "a", Quote, Semi, " ", "b">>), \* CM_ BU_ A "a"; b
     CM("BO_", "1", <<" ", "x">>)}                              \* CM_ BO_ 1 x

BusConfigurationLines ==
    {[head |-> Literal.BS_, layout |-> "BS_", speed |-> sp,
      text |-> <<":">> \o (IF sp = "None" THEN << >> ELSE <<" ", sp>>)]
        : sp \in {"500"}}

\* Lines that start with no keyword: free text, as found inside a description.
OtherLines ==
    {[head |-> << >>, layout |-> "none", text |-> t] :
        t \in {<<"b">>,                                   \* b
               <<"b", Quote, Semi>>,                      \* b";
               <<"b", Quote, Semi, " ">>,                 \* b";  (trailing blank)
               <<"b", Quote, Semi, " ", "c">>}}           \* b"; c

\* An attribute definition record: BA_DEF_, the target marker, the quoted
\* name, the type keyword, the trailing clause and the closing semicolon.
\* The first is the record of the specification's scenario, the second the
\* same record without its closing semicolon, the third a record with no
\* marker whose attribute is named BU_.
AttributeDefinitionLines ==
    {[head |-> Literal.BA_DEF_, layout |-> "BA_DEF_", obj_type |-> "BO_",
      attr_name |-> "GenMsgCycleTime", attr_type |-> "INT",
      attr_config |-> <<"0", "65535">>, text |-> <<" ", Tilde, Semi>>],
     [head |-> Literal.BA_DEF_, layout |-> "BA_DEF_", obj_type |-> "BO_",
      attr_name |-> "GenMsgCycleTime", attr_type |-> "INT",
      attr_config |-> <<"0", "65535">>, text |-> <<" ", Tilde>>],
     [head |-> Literal.BA_DEF_, layout |-> "BA_DEF_", obj_type |-> "None",
      attr_name |-> "BU_", attr_type |-> "STRING",
      attr_config |-> << >>, text |-> <<" ", Tilde, " ", Semi>>]}

\* Records of other kinds whose first word begins with a keyword literal:
\* BO_TX_BU_, BA_DEF_DEF_, BU_SG_REL_ and SG_MUL_VAL_.
LongerKeywordLines ==
    {[head |-> h, layout |-> "none", text |-> <<" ", Tilde, Semi>>] :
        h \in {Literal.BO_ \o <<"T", "X", "_", "B", "U", "_">>,
               Literal.BA_DEF_ \o <<"D", "E", "F", "_">>,
               Literal.BU_ \o <<"S", "G", "_", "R", "E", "L", "_">>,
               Literal.SG_ \o <<"M", "U", "L", "_", "V", "A", "L", "_">>}}

Lines ==
    VersionLines \cup NodeLines \cup MessageLines \cup SignalLines
    \cup DescriptionLines \cup BusConfigurationLines
    \cup AttributeDefinitionLines \cup LongerKeywordLines \cup OtherLines

NoLine == [head |-> << >>, layout |-> "none", text |-> << >>]

\* the whole text of a line
Raw(l) == l.head \o l.text

\* line.strip() in parse_file
StripLine(l) ==
    IF l.head = << >> THEN [l EXCEPT !.text = Strip(@)]
    ELSE [l EXCEPT !.text = RStrip(@)]

\* re.search of a grammar's pattern finds a match: the keyword literal stands
\* as a word of its own and the body has the grammar's field layout.
Matches(l, key) == l.head = Literal[key] /\ l.layout = key

\* the attribute pattern ends with a semicolon, which the line has to hold
ClosingSemicolon(l) == \E i \in 1..Len(l.text) : l.text[i] = Semi

\* int() and float() of a captured field
IsInt(tok) == tok \in {"0", "1", "2", "8", "500", "65535"}
IsFloat(tok) == IsInt(tok) \/ tok \in {"0.25"}

----------------------------------------------------------------------------
\* The tail of the description pattern (optional blanks, the name as a run of
\* non-blank characters, optional blanks, a quote, the value of one character
\* or more) applied to the text after the can id.  The name is greedy: it is
\* the longest run that still leaves a quote and one character more.

RECURSIVE RunLength(_)
RunLength(s) == IF s = << >> \/ IsSpace(Head(s)) THEN 0 ELSE 1 + RunLength(Tail(s))

NameFits(r, k) ==
    IF k < RunLength(r)
    THEN r[k + 1] = Quote /\ Len(r) >= k + 2
    ELSE LET a == LStrip(SubSeq(r, k + 1, Len(r)))
         IN  Len(a) >= 2 /\ a[1] = Quote

DescriptionTail(rest) ==
    LET r == LStrip(rest)
        fits == {k \in 0..RunLength(r) : NameFits(r, k)}
        k == CHOOSE x \in fits : \A y \in fits : y <= x
    IN  IF fits = {} THEN [ok |-> FALSE, name |-> << >>, value |-> << >>]
        ELSE [ok |-> TRUE,
              name |-> SubSeq(r, 1, k),
              value |-> IF k < RunLength(r) THEN SubSeq(r, k + 2, Len(r))
                        ELSE Tail(LStrip(SubSeq(r, k + 1, Len(r))))]

----------------------------------------------------------------------------
(* The entity graph (canpy.can_bus) *)

Unset == <<"None">>     \* a description that was never assigned

NewBus == [version |-> "None", speed |-> "None", description |-> Unset]

\* CANBus.nodes[name]: the node of the current bus with that name, 0 if none
NodeIndex(ns, name) ==
    LET found == {i \in 1..Len(ns) : ns[i].bus = canbus /\ ns[i].name = name}
    IN  IF found = {} THEN 0 ELSE CHOOSE i \in found : TRUE

\* CANBus.get_message(can_id): the message of the current bus with that id
MessageIndex(id) ==
    LET found == {i \in 1..Len(messages) :
                    messages[i].bus = canbus /\ messages[i].can_id = id}
    IN  IF found = {} THEN 0 ELSE CHOOSE i \in found : TRUE

\* CANBus.get_signal(can_id, name): the position of the signal in its message
SignalIndex(m, name) ==
    LET found == {i \in 1..Len(messages[m].signals) :
                    messages[m].signals[i].name = name}
    IN  IF found = {} THEN 0 ELSE CHOOSE i \in found : TRUE

\* CANBus.add_node, once per name in listed order, up to the first failure
RECURSIVE AddNodes(_, _)
AddNodes(ns, names) ==
    IF names = << >> THEN [nodes |-> ns, err |-> "None"]
    ELSE IF NodeIndex(ns, Head(names)) # 0
         THEN [nodes |-> ns, err |-> "DuplicateEntity"]
         ELSE AddNodes(Append(ns, [bus |-> canbus, name |-> Head(names),
                                   description |-> Unset]),
                       Tail(names))

\* the receivers of a signal resolved in the node set, 0 for an unknown name
Resolve(names) == [i \in 1..Len(names) |-> NodeIndex(nodes, names[i])]

\* the payloads of self._mode
NonePayload == [kind |-> "None"]
MessagePayload(m) == [kind |-> "message", ref |-> m]
PairPayload(target, buffer) == [kind |-> "pair", target |-> target, buffer |-> buffer]

\* desc_item.description = text, on the bus, node, message or signal desc_item
BusesWith(t, text) ==
    IF t.kind = "bus" THEN [buses EXCEPT ![t.ref].description = text] ELSE buses
NodesWith(t, text) ==
    IF t.kind = "node" THEN [nodes EXCEPT ![t.ref].description = text] ELSE nodes
MessagesWith(t, text) ==
    IF t.kind = "message" THEN [messages EXCEPT ![t.ref].description = text]
    ELSE IF t.kind = "signal"
         THEN [messages EXCEPT ![t.ref].signals[t.sig].description = text]
         ELSE messages

----------------------------------------------------------------------------
(* The parser *)

\* __init__
Init ==
    /\ canbus = 1
    /\ buses = <<NewBus>>
    /\ nodes = << >>
    /\ messages = << >>
    /\ attribute_definitions = << >>
    /\ mode = <<"NORMAL", NonePayload>>
    /\ force_parser = "False"
    /\ pc = "ready"
    /\ exc = "None"
    /\ nparses = 0
    /\ nlines = 0
    /\ fed = << >>
    /\ handler = "None"

\* an exception leaves the handler, _parse_line and parse_file
Raise(e) == pc' = "raised" /\ exc' = e
Continue == UNCHANGED <<pc, exc>>

\* parse_file up to the first line: a new bus, the file opened
parse_file ==
    /\ pc \in {"ready", "returned", "raised"}
    /\ nparses < MaxParses
    /\ nparses' = nparses + 1
    /\ canbus' = Len(buses) + 1
    /\ buses' = Append(buses, NewBus)
    /\ pc' = "reading"
    /\ exc' = "None"
    /\ handler' = "None"
    /\ UNCHANGED <<nodes, messages, attribute_definitions, mode, force_parser, nlines,
                   fed>>

\* parse_file at the end of the file: return self._canbus
Return ==
    /\ pc = "reading"
    /\ pc' = "returned"
    /\ handler' = "None"
    /\ UNCHANGED <<graph, mode, force_parser, exc, nparses, nlines, fed>>

\* _parse_line looking at the keywords before it looks at _force_parser
Route_keywords_first(l) ==
    IF MatchingKeys(l) # {} THEN keywords[CHOOSE k \in MatchingKeys(l) : TRUE]
    ELSE IF force_parser # "False" THEN force_parser
         ELSE "ignored"

\* _parse_line: the handler a line goes to
Route(l) ==
    IF force_parser # "False" THEN force_parser
    ELSE IF MatchingKeys(l) = {} THEN "ignored"
         ELSE keywords[CHOOSE k \in MatchingKeys(l) : TRUE]

\* parse_file going on to the next line after a line has raised
Read_after_failure(l, h) ==
    /\ pc \in {"reading", "raised"}
    /\ nlines < MaxLines
    /\ Route(l) = h
    /\ nlines' = nlines + 1
    /\ handler' = h
    /\ UNCHANGED nparses

\* parse_file reads the next line, strips it and hands it to _parse_line
Read(l, h) ==
    /\ pc = "reading"
    /\ nlines < MaxLines
    /\ Route(l) = h
    /\ nlines' = nlines + 1
    /\ handler' = h
    /\ UNCHANGED nparses

\* _parse_version ending the way _parse_description does, with the mode reset
parse_version_resetting(l) ==
    IF ~Matches(l, "VERSION")
    THEN Raise("AttributeError") /\ UNCHANGED <<graph, mode, force_parser>>
    ELSE /\ buses' = [buses EXCEPT ![canbus].version = l.version]
         /\ mode' = <<"NORMAL", NonePayload>>
         /\ Continue
         /\ UNCHANGED <<canbus, nodes, messages, attribute_definitions, force_parser>>

\* _parse_version
parse_version(l) ==
    IF ~Matches(l, "VERSION")
    THEN Raise("AttributeError") /\ UNCHANGED <<graph, mode, force_parser>>
    ELSE /\ buses' = [buses EXCEPT ![canbus].version = l.version]
         /\ Continue
         /\ UNCHANGED <<canbus, nodes, messages, attribute_definitions, mode,
                        force_parser>>

\* _parse_nodes
parse_nodes(l) ==
    IF ~Matches(l, "BU_")
    THEN Raise("AttributeError") /\ UNCHANGED <<graph, mode, force_parser>>
    ELSE LET r == AddNodes(nodes, l.nodes)
         IN  /\ nodes' = r.nodes
             /\ IF r.err = "None" THEN Continue ELSE Raise(r.err)
             /\ UNCHANGED <<canbus, buses, messages, attribute_definitions, mode,
                            force_parser>>

\* _parse_message without the lookup of the sender in the node set
parse_message_any_sender(l) ==
    IF ~Matches(l, "BO_")
    THEN Raise("AttributeError") /\ UNCHANGED <<graph, mode, force_parser>>
    ELSE IF ~(IsInt(l.can_id) /\ IsInt(l.length))
    THEN Raise("ValueError") /\ UNCHANGED <<graph, mode, force_parser>>
    ELSE IF MessageIndex(l.can_id) # 0
    THEN Raise("DuplicateEntity") /\ UNCHANGED <<graph, mode, force_parser>>
    ELSE /\ messages' = Append(messages,
                               [bus |-> canbus, can_id |-> l.can_id, name |-> l.name,
                                length |-> l.length,
                                sender |-> NodeIndex(nodes, l.sender),
                                description |-> Unset, signals |-> << >>])
         /\ mode' = <<"MESSAGE", MessagePayload(Len(messages) + 1)>>
         /\ Continue
         /\ UNCHANGED <<canbus, buses, nodes, attribute_definitions, force_parser>>

\* _parse_message
parse_message(l) ==
    IF ~Matches(l, "BO_")
    THEN Raise("AttributeError") /\ UNCHANGED <<graph, mode, force_parser>>
    ELSE IF ~(IsInt(l.can_id) /\ IsInt(l.length))
    THEN Raise("ValueError") /\ UNCHANGED <<graph, mode, force_parser>>
    ELSE IF NodeIndex(nodes, l.sender) = 0
    THEN Raise("UnknownNode") /\ UNCHANGED <<graph, mode, force_parser>>
    ELSE IF MessageIndex(l.can_id) # 0
    THEN Raise("DuplicateEntity") /\ UNCHANGED <<graph, mode, force_parser>>
    ELSE /\ messages' = Append(messages,
                               [bus |-> canbus, can_id |-> l.can_id, name |-> l.name,
                                length |-> l.length,
                                sender |-> NodeIndex(nodes, l.sender),
                                description |-> Unset, signals |-> << >>])
         /\ mode' = <<"MESSAGE", MessagePayload(Len(messages) + 1)>>
         /\ Continue
         /\ UNCHANGED <<canbus, buses, nodes, attribute_definitions, force_parser>>

\* int(multiplexer_id.strip()[1:])
MultiplexerId(tok) == IF tok = "m1" THEN "1" ELSE "None"

\* the CANSignal of _parse_signal with endianness code 0 read as little-endian
SignalOf_zero_is_little(l) ==
    [name |-> l.name, start_bit |-> l.start_bit, length |-> l.length,
     little_endian |-> (l.endianness = "0"), signed |-> (l.sign = "-"),
     factor |-> l.factor,
     is_multiplexer |-> (l.is_multipexer # "None"),
     multiplexer_id |-> MultiplexerId(l.multiplexer_id),
     receivers |-> Resolve(l.receivers), description |-> Unset]

\* the CANSignal that _parse_signal builds from the captured fields
SignalOf(l) ==
    [name |-> l.name, start_bit |-> l.start_bit, length |-> l.length,
     little_endian |-> (l.endianness = "1"), signed |-> (l.sign = "-"),
     factor |-> l.factor,
     is_multiplexer |-> (l.is_multipexer # "None"),
     multiplexer_id |-> MultiplexerId(l.multiplexer_id),
     receivers |-> Resolve(l.receivers), description |-> Unset]

\* _parse_signal with the conversion of the factor moved before the mode check
parse_signal_converting_first(l) ==
    IF ~Matches(l, "SG_")
    THEN Raise("AttributeError") /\ UNCHANGED <<graph, mode, force_parser>>
    ELSE IF ~IsFloat(l.factor)
    THEN Raise("ValueError") /\ UNCHANGED <<graph, mode, force_parser>>
    ELSE IF mode[1] # "MESSAGE"
    THEN Raise("RuntimeError") /\ UNCHANGED <<graph, mode, force_parser>>
    ELSE IF \E i \in 1..Len(l.receivers) : Resolve(l.receivers)[i] = 0
    THEN Raise("UnknownNode") /\ UNCHANGED <<graph, mode, force_parser>>
    ELSE IF SignalIndex(mode[2].ref, l.name) # 0
    THEN Raise("DuplicateEntity") /\ UNCHANGED <<graph, mode, force_parser>>
    ELSE /\ messages' = [messages EXCEPT ![mode[2].ref].signals = Append(@, SignalOf(l))]
         /\ Continue
         /\ UNCHANGED <<canbus, buses, nodes, attribute_definitions, mode,
                        force_parser>>

\* _parse_signal adding the signal to the first message instead of self._mode[1]
parse_signal_to_first_message(l) ==
    IF ~Matches(l, "SG_")
    THEN Raise("AttributeError") /\ UNCHANGED <<graph, mode, force_parser>>
    ELSE IF mode[1] # "MESSAGE"
    THEN Raise("RuntimeError") /\ UNCHANGED <<graph, mode, force_parser>>
    ELSE IF ~IsFloat(l.factor)
    THEN Raise("ValueError") /\ UNCHANGED <<graph, mode, force_parser>>
    ELSE IF \E i \in 1..Len(l.receivers) : Resolve(l.receivers)[i] = 0
    THEN Raise("UnknownNode") /\ UNCHANGED <<graph, mode, force_parser>>
    ELSE IF SignalIndex(1, l.name) # 0
    THEN Raise("DuplicateEntity") /\ UNCHANGED <<graph, mode, force_parser>>
    ELSE /\ messages' = [messages EXCEPT ![1].signals = Append(@, SignalOf(l))]
         /\ Continue
         /\ UNCHANGED <<canbus, buses, nodes, attribute_definitions, mode,
                        force_parser>>

\* _parse_signal
parse_signal(l) ==
    IF ~Matches(l, "SG_")
    THEN Raise("AttributeError") /\ UNCHANGED <<graph, mode, force_parser>>
    ELSE IF mode[1] # "MESSAGE"
    THEN Raise("RuntimeError") /\ UNCHANGED <<graph, mode, force_parser>>
    ELSE IF ~IsFloat(l.factor)
    THEN Raise("ValueError") /\ UNCHANGED <<graph, mode, force_parser>>
    ELSE IF \E i \in 1..Len(l.receivers) : Resolve(l.receivers)[i] = 0
    THEN Raise("UnknownNode") /\ UNCHANGED <<graph, mode, force_parser>>
    ELSE IF SignalIndex(mode[2].ref, l.name) # 0
    THEN Raise("DuplicateEntity") /\ UNCHANGED <<graph, mode, force_parser>>
    ELSE /\ messages' = [messages EXCEPT ![mode[2].ref].signals = Append(@, SignalOf(l))]
         /\ Continue
         /\ UNCHANGED <<canbus, buses, nodes, attribute_definitions, mode,
                        force_parser>>

\* the desc_item of _parse_description: the target, or the error of its lookup
DescItem(l, name) ==
    IF l.marker = "BU_"
    THEN LET found == {i \in 1..Len(nodes) :
                         nodes[i].bus = canbus /\ <<nodes[i].name>> = Strip(name)}
         IN  IF found = {} THEN [err |-> "UnknownNode"]
             ELSE [err |-> "None", kind |-> "node", ref |-> CHOOSE i \in found : TRUE,
                   sig |-> 0]
    ELSE IF l.marker \in {"BO_", "SG_"}
    THEN IF ~IsInt(l.can_id) THEN [err |-> "ValueError"]
         ELSE IF MessageIndex(l.can_id) = 0 THEN [err |-> "NotFound"]
         ELSE IF l.marker = "BO_"
         THEN [err |-> "None", kind |-> "message", ref |-> MessageIndex(l.can_id),
               sig |-> 0]
         ELSE LET m == MessageIndex(l.can_id)
                  found == {i \in 1..Len(messages[m].signals) :
                              <<messages[m].signals[i].name>> = Strip(name)}
              IN  IF found = {} THEN [err |-> "NotFound"]
                  ELSE [err |-> "None", kind |-> "signal", ref |-> m,
                        sig |-> CHOOSE i \in found : TRUE]
    ELSE [err |-> "None", kind |-> "bus", ref |-> canbus, sig |-> 0]

\* _parse_description
parse_description(l) ==
    LET reg == DescriptionTail(l.rest)
        item == DescItem(l, reg.name)
        value == reg.value
    IN  IF ~(Matches(l, "CM_") /\ reg.ok)
        THEN Raise("AttributeError") /\ UNCHANGED <<graph, mode, force_parser>>
        ELSE IF item.err # "None"
        THEN Raise(item.err) /\ UNCHANGED <<graph, mode, force_parser>>
        ELSE IF LastTwoAreTerminator(Strip(value))
        THEN /\ buses' = BusesWith(item, RemoveTerminators(value))
             /\ nodes' = NodesWith(item, RemoveTerminators(value))
             /\ messages' = MessagesWith(item, RemoveTerminators(value))
             /\ mode' = <<"NORMAL", NonePayload>>
             /\ Continue
             /\ UNCHANGED <<canbus, attribute_definitions, force_parser>>
        ELSE /\ force_parser' = "parse_multiline_description"
             /\ mode' = <<"MULTILINE_DESCRIPTION",
                          PairPayload([kind |-> item.kind, ref |-> item.ref,
                                       sig |-> item.sig],
                                      value \o <<NL>>)>>
             /\ Continue
             /\ UNCHANGED graph

\* _parse_multiline_description ending on a terminator anywhere in the line
parse_multiline_description_anywhere(l) ==
    IF ContainsTerminator(Raw(l))
    THEN /\ buses' = BusesWith(mode[2].target, mode[2].buffer \o RemoveTerminators(Raw(l)))
         /\ nodes' = NodesWith(mode[2].target, mode[2].buffer \o RemoveTerminators(Raw(l)))
         /\ messages' =
                MessagesWith(mode[2].target, mode[2].buffer \o RemoveTerminators(Raw(l)))
         /\ force_parser' = "False"
         /\ mode' = <<"NORMAL", NonePayload>>
         /\ Continue
         /\ UNCHANGED <<canbus, attribute_definitions>>
    ELSE /\ mode' = <<mode[1], PairPayload(mode[2].target, mode[2].buffer \o Raw(l))>>
         /\ Continue
         /\ UNCHANGED <<graph, force_parser>>

\* _parse_multiline_description leaving the mode as it is when it completes
parse_multiline_description_keeping_mode(l) ==
    IF LastTwoAreTerminator(Strip(Raw(l)))
    THEN /\ buses' = BusesWith(mode[2].target, mode[2].buffer \o RemoveTerminators(Raw(l)))
         /\ nodes' = NodesWith(mode[2].target, mode[2].buffer \o RemoveTerminators(Raw(l)))
         /\ messages' =
                MessagesWith(mode[2].target, mode[2].buffer \o RemoveTerminators(Raw(l)))
         /\ force_parser' = "False"
         /\ mode' = IF \E i \in 1..Len(messages) : messages[i].bus = canbus
                    THEN <<"MESSAGE",
                           MessagePayload(CHOOSE i \in 1..Len(messages) :
                                              messages[i].bus = canbus)>>
                    ELSE <<"NORMAL", NonePayload>>
         /\ Continue
         /\ UNCHANGED <<canbus, attribute_definitions>>
    ELSE /\ mode' = <<mode[1], PairPayload(mode[2].target, mode[2].buffer \o Raw(l))>>
         /\ Continue
         /\ UNCHANGED <<graph, force_parser>>

\* _parse_multiline_description that stays installed when it completes
parse_multiline_description_staying_installed(l) ==
    IF LastTwoAreTerminator(Strip(Raw(l)))
    THEN /\ buses' = BusesWith(mode[2].target, mode[2].buffer \o RemoveTerminators(Raw(l)))
         /\ nodes' = NodesWith(mode[2].target, mode[2].buffer \o RemoveTerminators(Raw(l)))
         /\ messages' =
                MessagesWith(mode[2].target, mode[2].buffer \o RemoveTerminators(Raw(l)))
         /\ mode' = <<"NORMAL", NonePayload>>
         /\ Continue
         /\ UNCHANGED <<canbus, attribute_definitions, force_parser>>
    ELSE /\ mode' = <<mode[1], PairPayload(mode[2].target, mode[2].buffer \o Raw(l))>>
         /\ Continue
         /\ UNCHANGED <<graph, force_parser>>

\* _parse_multiline_description
parse_multiline_description(l) ==
    IF LastTwoAreTerminator(Strip(Raw(l)))
    THEN /\ buses' = BusesWith(mode[2].target, mode[2].buffer \o RemoveTerminators(Raw(l)))
         /\ nodes' = NodesWith(mode[2].target, mode[2].buffer \o RemoveTerminators(Raw(l)))
         /\ messages' =
                MessagesWith(mode[2].target, mode[2].buffer \o RemoveTerminators(Raw(l)))
         /\ force_parser' = "False"
         /\ mode' = <<"NORMAL", NonePayload>>
         /\ Continue
         /\ UNCHANGED <<canbus, attribute_definitions>>
    ELSE /\ mode' = <<mode[1], PairPayload(mode[2].target, mode[2].buffer \o Raw(l))>>
         /\ Continue
         /\ UNCHANGED <<graph, force_parser>>

\* _parse_bus_configuration
parse_bus_configuration(l) ==
    IF ~Matches(l, "BS_")
    THEN Raise("AttributeError") /\ UNCHANGED <<graph, mode, force_parser>>
    ELSE /\ buses' = IF l.speed # "None" THEN [buses EXCEPT ![canbus].speed = l.speed]
                     ELSE buses
         /\ Continue
         /\ UNCHANGED <<canbus, nodes, messages, attribute_definitions, mode,
                        force_parser>>

\* the obj_type of _parse_attribute_definition: a marker found among the groups
ObjType(l) ==
    LET groups == {l.obj_type, l.attr_name, l.attr_type}
                  \cup (IF Len(l.attr_config) = 1 THEN {l.attr_config[1]} ELSE {})
    IN  IF "BU_" \in groups THEN "CANNode"
        ELSE IF "BO_" \in groups THEN "CANMessage"
        ELSE IF "SG_" \in groups THEN "CANSignal"
        ELSE "CANBus"

\* _parse_attribute_definition with a pattern that asks for no closing semicolon
parse_attribute_definition_unclosed(l) ==
    IF ~Matches(l, "BA_DEF_")
    THEN Raise("AttributeError") /\ UNCHANGED <<graph, mode, force_parser>>
    ELSE IF \E i \in 1..Len(attribute_definitions) :
                /\ attribute_definitions[i].bus = canbus
                /\ attribute_definitions[i].name = l.attr_name
    THEN Raise("DuplicateEntity") /\ UNCHANGED <<graph, mode, force_parser>>
    ELSE /\ attribute_definitions' =
                Append(attribute_definitions,
                       [bus |-> canbus, name |-> l.attr_name, obj_type |-> ObjType(l),
                        type |-> l.attr_type, config |-> l.attr_config])
         /\ Continue
         /\ UNCHANGED <<canbus, buses, nodes, messages, mode, force_parser>>

\* _parse_attribute_definition
parse_attribute_definition(l) ==
    IF ~(Matches(l, "BA_DEF_") /\ ClosingSemicolon(l))
    THEN Raise("AttributeError") /\ UNCHANGED <<graph, mode, force_parser>>
    ELSE IF \E i \in 1..Len(attribute_definitions) :
                /\ attribute_definitions[i].bus = canbus
                /\ attribute_definitions[i].name = l.attr_name
    THEN Raise("DuplicateEntity") /\ UNCHANGED <<graph, mode, force_parser>>
    ELSE /\ attribute_definitions' =
                Append(attribute_definitions,
                       [bus |-> canbus, name |-> l.attr_name, obj_type |-> ObjType(l),
                        type |-> l.attr_type, config |-> l.attr_config])
         /\ Continue
         /\ UNCHANGED <<canbus, buses, nodes, messages, mode, force_parser>>

\* _parse_line raising on a line that no keyword matches
ignored_raising(l) == Raise("ValueError") /\ UNCHANGED <<graph, mode, force_parser>>

\* _parse_line with no keyword matching: nothing is called
ignored(l) == Continue /\ UNCHANGED <<graph, mode, force_parser>>

\* the record of what the open description was fed: the text of its opening
\* line, then each line appended to it; empty when no description is open
Feed(l) ==
    /\ fed' = IF mode'[1] # "MULTILINE_DESCRIPTION" THEN << >>
              ELSE IF mode[1] = "MULTILINE_DESCRIPTION" THEN Append(fed, Raw(l))
              ELSE <<DescriptionTail(l.rest).value>>
    /\ Len(fed') <= 1 + MaxAppended

----------------------------------------------------------------------------
(* parse_file's loop: one action for each handler a line can reach *)

\* _parse_line
parse_line(l) ==
    CASE Route(l) = "parse_version" -> parse_version(l)
      [] Route(l) = "parse_nodes" -> parse_nodes(l)
      [] Route(l) = "parse_message" -> parse_message(l)
      [] Route(l) = "parse_signal" -> parse_signal(l)
      [] Route(l) = "parse_description" -> parse_description(l)
      [] Route(l) = "parse_multiline_description" -> parse_multiline_description(l)
      [] Route(l) = "parse_bus_configuration" -> parse_bus_configuration(l)
      [] Route(l) = "parse_attribute_definition" -> parse_attribute_definition(l)
      [] OTHER -> ignored(l)

\* one turn of the loop of parse_file on the stripped line l
Line(l) == Read(l, Route(l)) /\ parse_line(l) /\ Feed(l)

\* the lines _parse_line can be handed
Stripped == {StripLine(f) : f \in Lines}

ParseVersion ==
    \E f \in Lines :
        LET l == StripLine(f) IN Read(l, "parse_version") /\ parse_version(l) /\ Feed(l)
ParseNodes ==
    \E f \in Lines :
        LET l == StripLine(f) IN Read(l, "parse_nodes") /\ parse_nodes(l) /\ Feed(l)
ParseMessage ==
    \E f \in Lines :
        LET l == StripLine(f) IN Read(l, "parse_message") /\ parse_message(l) /\ Feed(l)
ParseSignal ==
    \E f \in Lines :
        LET l == StripLine(f) IN Read(l, "parse_signal") /\ parse_signal(l) /\ Feed(l)
ParseDescription ==
    \E f \in Lines :
        LET l == StripLine(f) IN Read(l, "parse_description") /\ parse_description(l) /\ Feed(l)
ParseMultilineDescription ==
    \E f \in Lines :
        LET l == StripLine(f)
        IN  Read(l, "parse_multiline_description") /\ parse_multiline_description(l) /\ Feed(l)
ParseBusConfiguration ==
    \E f \in Lines :
        LET l == StripLine(f)
        IN  Read(l, "parse_bus_configuration") /\ parse_bus_configuration(l) /\ Feed(l)
ParseAttributeDefinition ==
    \E f \in Lines :
        LET l == StripLine(f)
        IN  Read(l, "parse_attribute_definition") /\ parse_attribute_definition(l) /\ Feed(l)
Ignore ==
    \E f \in Lines : LET l == StripLine(f) IN Read(l, "ignored") /\ ignored(l) /\ Feed(l)

Next ==
    \/ parse_file
    \/ Return
    \/ ParseVersion
    \/ ParseNodes
    \/ ParseMessage
    \/ ParseSignal
    \/ ParseDescription
    \/ ParseMultilineDescription
    \/ ParseBusConfiguration
    \/ ParseAttributeDefinition
    \/ Ignore

Spec == Init /\ [][Next]_vars

----------------------------------------------------------------------------
(* Properties *)

\* C1: a signal record that matches the signal pattern and is handed to
\* _parse_signal while the mode is not MESSAGE ends the parse with the context
\* error (RuntimeError); the graph, and so the signals of every message, and the
\* mode are left as they were.
C1_SignalOutsideMessageFails ==
    [][\A l \in Stripped :
          (Route(l) = "parse_signal" /\ Matches(l, "SG_") /\ mode[1] # "MESSAGE"
             /\ Line(l))
            => (pc' = "raised" /\ exc' = "RuntimeError" /\ UNCHANGED <<graph, mode>>)]_vars

C1_Witness ==
    /\ pc = "raised" /\ exc = "RuntimeError"
    /\ handler = "parse_signal" /\ mode[1] # "MESSAGE"

\* a description record whose text does not close on its own line
IsUnterminatedDescription(l) ==
    /\ Route(l) = "parse_description"
    /\ Matches(l, "CM_")
    /\ DescriptionTail(l.rest).ok
    /\ ~LastTwoAreTerminator(Strip(DescriptionTail(l.rest).value))

\* C2 as stated: with a message context open, every line that is neither a BO_
\* record nor an unterminated description leaves the context as it is.
C2_ContextSurvivesAllButMessageAndMultiline ==
    [][\A l \in Stripped :
          (mode[1] = "MESSAGE" /\ Route(l) # "parse_message"
             /\ ~IsUnterminatedDescription(l) /\ Line(l))
            => mode' = mode]_vars

\* C2 amended: with a message context open, every line that goes to neither
\* _parse_message nor _parse_description (VERSION, BU_, SG_, BS_, BA_DEF_,
\* unrecognized lines) leaves the context as it is, while an accepted CM_ record
\* always ends it: the mode becomes NORMAL when the description closes on its
\* own line and MULTILINE_DESCRIPTION when it does not.
C2_ContextSurvivesAllButMessageAndDescription ==
    [][\A l \in Stripped :
          (mode[1] = "MESSAGE" /\ Route(l) # "parse_message" /\ Line(l))
            => IF Route(l) # "parse_description" THEN mode' = mode
               ELSE pc' = "reading"
                      => mode'[1] = (IF IsUnterminatedDescription(l)
                                     THEN "MULTILINE_DESCRIPTION" ELSE "NORMAL")]_vars

C2_Witness ==
    /\ pc = "reading" /\ mode[1] = "MESSAGE"
    /\ handler \in {"parse_version", "parse_bus_configuration",
                    "parse_attribute_definition", "ignored"}

\* the description of the bus, node, message or signal t in the stores bs, ns, ms
DescriptionAt(bs, ns, ms, t) ==
    CASE t.kind = "bus" -> bs[t.ref].description
      [] t.kind = "node" -> ns[t.ref].description
      [] t.kind = "message" -> ms[t.ref].description
      [] t.kind = "signal" -> ms[t.ref].signals[t.sig].description

\* C3: when the line that ends with the terminator is fed to a description
\* opened and continued by texts that hold no terminator, the description
\* assigned to the target is the opening text and each line fed since, every
\* one followed by a newline, then the terminating line without its
\* terminator; the assigned text holds no terminator.
C3_DescriptionIsLinesJoinedByNewlines ==
    [][\A l \in Stripped :
          (force_parser # "False" /\ LastTwoAreTerminator(Strip(Raw(l)))
             /\ (\A i \in 1..Len(fed) : ~ContainsTerminator(fed[i])) /\ Line(l))
            => LET d == DescriptionAt(buses', nodes', messages', mode[2].target)
                   joined[i \in 0..Len(fed)] ==
                       IF i = 0 THEN << >> ELSE joined[i - 1] \o fed[i] \o <<NL>>
                   last == SubSeq(Strip(Raw(l)), 1, Len(Strip(Raw(l))) - 2)
               IN  /\ d = joined[Len(fed)] \o last
                   /\ ~ContainsTerminator(d)]_vars

\* C4 as stated: while a description is open, a line that holds the terminator
\* at any position ends the continuation on that line.
C4_TerminatorAnywhereEnds ==
    [][\A l \in Stripped :
          (force_parser # "False" /\ ContainsTerminator(Raw(l)) /\ Line(l))
            => (force_parser' = "False" /\ mode'[1] = "NORMAL")]_vars

\* C4 amended: while a description is open, a line ends the continuation exactly
\* when its stripped text ends with the terminator: then the buffer and the line
\* with every terminator removed are assigned to the target and the dispatcher
\* leaves continuation mode.  Any other line, one that holds the terminator
\* before its end included, is appended to the buffer and the description stays
\* open.
C4_TerminatorAtEndEnds ==
    [][\A l \in Stripped :
          (force_parser # "False" /\ Line(l))
            => IF LastTwoAreTerminator(Strip(Raw(l)))
               THEN /\ force_parser' = "False"
                    /\ mode' = <<"NORMAL", NonePayload>>
                    /\ DescriptionAt(buses', nodes', messages', mode[2].target)
                         = mode[2].buffer \o RemoveTerminators(Raw(l))
               ELSE /\ force_parser' = force_parser
                    /\ mode'[1] = "MULTILINE_DESCRIPTION"
                    /\ mode'[2].target = mode[2].target
                    /\ mode'[2].buffer = mode[2].buffer \o Raw(l)
                    /\ UNCHANGED graph]_vars

\* a description still open after a line that holds the terminator before its end
C4_Witness ==
    /\ pc = "reading" /\ handler = "parse_multiline_description"
    /\ force_parser # "False" /\ mode[1] = "MULTILINE_DESCRIPTION"
    /\ Len(fed) >= 2 /\ ContainsTerminator(fed[Len(fed)])

\* C5: the line that completes a multi-line description leaves the mode NORMAL
\* with no message, whatever the mode held before the description was opened,
\* and a signal record that matches the signal pattern and is the next line
\* handed to _parse_line ends the parse with the context error.
C5_CompletedDescriptionClosesContext ==
    [][/\ (handler' = "parse_multiline_description" /\ force_parser' = "False")
            => mode' = <<"NORMAL", NonePayload>>
       /\ \A l \in Stripped :
            (handler = "parse_multiline_description" /\ force_parser = "False"
               /\ Route(l) = "parse_signal" /\ Matches(l, "SG_") /\ Line(l))
              => (pc' = "raised" /\ exc' = "RuntimeError" /\ UNCHANGED graph)]_vars

\* the signal record rejected after BU_, BO_, an opening CM_ line and its
\* terminating line: the message of the BO_ record is in the bus
C5_Witness ==
    /\ pc = "raised" /\ exc = "RuntimeError" /\ handler = "parse_signal"
    /\ \E i \in 1..Len(messages) : messages[i].bus = canbus
    /\ \E x \in 1..Len(buses[canbus].description) : buses[canbus].description[x] = NL

\* C6: while a description is open every line goes to the continuation handler,
\* whatever keyword it starts with; a line that does not end the continuation
\* changes nothing in the graph, and the line that ends it changes nothing but
\* descriptions: the nodes, the messages and their signals, the attribute
\* definitions and the version and speed of the bus are the same.
Skeleton(bs, ns, ms, ads) ==
    <<[i \in DOMAIN bs |-> [bs[i] EXCEPT !.description = Unset]],
      [i \in DOMAIN ns |-> [ns[i] EXCEPT !.description = Unset]],
      [i \in DOMAIN ms |->
          [ms[i] EXCEPT !.description = Unset,
                        !.signals = [j \in DOMAIN ms[i].signals |->
                                        [ms[i].signals[j] EXCEPT !.description = Unset]]]],
      ads>>

C6_ContinuationInterceptsDispatch ==
    [][\A l \in Stripped :
          (force_parser # "False" /\ Line(l))
            => /\ handler' = "parse_multiline_description"
               /\ pc' = "reading"
               /\ canbus' = canbus
               /\ Skeleton(buses', nodes', messages', attribute_definitions')
                    = Skeleton(buses, nodes, messages, attribute_definitions)
               /\ force_parser' # "False" => UNCHANGED graph]_vars

\* a node list record taken as text of the open description
C6_Witness ==
    /\ handler = "parse_multiline_description" /\ force_parser # "False"
    /\ Len(fed) >= 2 /\ StartsWith(fed[Len(fed)], Literal.BU_)
    /\ nodes = << >>

\* C7: every call of parse_file starts in NORMAL mode with no open message and
\* no active continuation, whatever the calls before it left behind.
C7_ParseStartsInNormalMode ==
    [][(pc # "reading" /\ pc' = "reading")
         => (mode' = <<"NORMAL", NonePayload>> /\ force_parser' = "False")]_vars

\* C8: a message record whose sender is not a node of the bus ends the parse
\* with an error; the graph, the messages included, and the mode are the same
\* as before the record.
C8_UnknownSenderFails ==
    [][\A l \in Stripped :
          (Route(l) = "parse_message" /\ Matches(l, "BO_")
             /\ NodeIndex(nodes, l.sender) = 0 /\ Line(l))
            => (pc' = "raised" /\ exc' # "None" /\ UNCHANGED <<graph, mode>>)]_vars

\* a message record rejected for its sender while an earlier message is open
C8_Witness ==
    /\ pc = "raised" /\ exc = "UnknownNode" /\ handler = "parse_message"
    /\ mode[1] = "MESSAGE" /\ messages # << >>

\* C9: a signal record handled while a message is open either ends the parse
\* with the graph unchanged, or is appended to the signals of the message of
\* the most recent accepted message record, the last one created, and to no
\* other, with every receiver a node that the bus already held; a record that
\* names a receiver the bus does not hold ends the parse, graph unchanged.
C9_SignalJoinsCurrentMessage ==
    [][\A l \in Stripped :
          (Route(l) = "parse_signal" /\ Matches(l, "SG_") /\ mode[1] = "MESSAGE"
             /\ Line(l))
            => /\ IF pc' = "reading"
                  THEN /\ mode[2].ref = Len(messages)
                       /\ messages' = [messages EXCEPT
                                         ![Len(messages)].signals = Append(@, SignalOf(l))]
                       /\ \A i \in 1..Len(l.receivers) :
                            LET n == SignalOf(l).receivers[i]
                            IN  /\ n \in 1..Len(nodes)
                                /\ nodes[n].bus = canbus
                                /\ nodes[n].name = l.receivers[i]
                       /\ UNCHANGED <<canbus, buses, nodes, attribute_definitions>>
                  ELSE pc' = "raised" /\ UNCHANGED graph
               /\ (\E i \in 1..Len(l.receivers) : NodeIndex(nodes, l.receivers[i]) = 0)
                    => pc' = "raised"]_vars

\* a signal accepted after two message records: it is in the second message only
C9_Witness ==
    /\ pc = "reading" /\ handler = "parse_signal" /\ mode[1] = "MESSAGE"
    /\ Len(messages) = 2
    /\ messages[1].signals = << >> /\ Len(messages[2].signals) = 1
    /\ messages[2].signals[1].receivers # << >>

\* C10: no signal of the graph has both the multiplexer flag and a multiplexer
\* group id.
C10_MultiplexerFieldsExclusive ==
    \A m \in 1..Len(messages) : \A i \in 1..Len(messages[m].signals) :
        ~(messages[m].signals[i].is_multiplexer
            /\ messages[m].signals[i].multiplexer_id # "None")

\* C11: once a line has raised, the parse is over: no further line is read,
\* the nodes, messages, attribute definitions, mode and continuation handler
\* stay as the failing line left them, parse_file does not return, and the
\* only thing that can follow is a new call of parse_file with its new bus.
C11_FailureAbortsTheParse ==
    [][pc = "raised"
         => /\ nlines' = nlines
            /\ pc' # "returned"
            /\ UNCHANGED <<nodes, messages, attribute_definitions, mode, force_parser>>
            /\ buses' \in {buses, Append(buses, NewBus)}
            /\ \A b \in 1..Len(buses) : buses'[b] = buses[b]]_vars

\* a parse ended by an exception with lines still to be read
C11_Witness ==
    /\ pc = "raised" /\ exc # "None" /\ handler # "None"
    /\ nlines \in 1..(MaxLines - 1)
    /\ nodes # << >>

\* C12: while no description is open, a line that starts with no keyword
\* raises nothing and leaves the graph and the mode, the open message
\* included, as they were.
C12_UnrecognizedLineIsIgnored ==
    [][\A l \in Stripped :
          (force_parser = "False" /\ MatchingKeys(l) = {} /\ Line(l))
            => (pc' = "reading" /\ exc' = "None" /\ handler' = "ignored"
                  /\ UNCHANGED <<graph, mode, force_parser>>)]_vars

\* a line that starts with no keyword read while a message is open
C12_Witness ==
    /\ pc = "reading" /\ handler = "ignored" /\ mode[1] = "MESSAGE"
    /\ force_parser = "False"

\* C13: the attribute definition that an accepted BA_DEF_ record adds has the
\* target kind of the record's marker: none CANBus, BU_ CANNode, BO_
\* CANMessage, SG_ CANSignal, whatever its name, type and trailing clause.
C13_TargetKindFollowsMarker ==
    [][\A l \in Stripped :
          (Route(l) = "parse_attribute_definition" /\ Line(l) /\ pc' = "reading")
            => attribute_definitions'[Len(attribute_definitions')].obj_type
                 = CASE l.obj_type = "BU_" -> "CANNode"
                     [] l.obj_type = "BO_" -> "CANMessage"
                     [] l.obj_type = "SG_" -> "CANSignal"
                     [] OTHER -> "CANBus"]_vars

\* the record BA_DEF_ BO_ "GenMsgCycleTime" INT 0 65535, with or without the
\* closing semicolon, on a bus that has no attribute of that name yet
IsCycleTimeRecord(l) ==
    /\ l.head = Literal.BA_DEF_ /\ l.layout = "BA_DEF_"
    /\ l.obj_type = "BO_" /\ l.attr_name = "GenMsgCycleTime"
    /\ l.attr_type = "INT" /\ l.attr_config = <<"0", "65535">>
    /\ force_parser = "False"
    /\ \A i \in 1..Len(attribute_definitions) :
          ~(attribute_definitions[i].bus = canbus
              /\ attribute_definitions[i].name = "GenMsgCycleTime")

\* the one definition that the record is to add to the bus
CycleTimeAdded ==
    /\ pc' = "reading"
    /\ attribute_definitions' =
          Append(attribute_definitions,
                 [bus |-> canbus, name |-> "GenMsgCycleTime", obj_type |-> "CANMessage",
                  type |-> "INT", config |-> <<"0", "65535">>])
    /\ UNCHANGED <<canbus, buses, nodes, messages>>

\* C14 as stated: the record written with no closing semicolon is accepted and
\* adds the one Int-typed definition GenMsgCycleTime for messages, bounds 0 and
\* 65535.
C14_RecordWithoutSemicolonAccepted ==
    [][\A l \in Stripped :
          (IsCycleTimeRecord(l) /\ ~ClosingSemicolon(l) /\ Line(l))
            => CycleTimeAdded]_vars

\* C14 amended: the record written with its closing semicolon is accepted and
\* adds the one Int-typed definition GenMsgCycleTime for messages, bounds 0 and
\* 65535; written without the semicolon it ends the parse with an error and
\* adds nothing.
C14_RecordWithSemicolonAccepted ==
    [][\A l \in Stripped :
          (IsCycleTimeRecord(l) /\ Line(l))
            => IF ClosingSemicolon(l) THEN CycleTimeAdded
               ELSE pc' = "raised" /\ exc' = "AttributeError" /\ UNCHANGED graph]_vars

\* the definition GenMsgCycleTime just added to the bus being parsed
C14_Witness ==
    /\ pc = "reading" /\ handler = "parse_attribute_definition"
    /\ \E i \in 1..Len(attribute_definitions) :
          /\ attribute_definitions[i].bus = canbus
          /\ attribute_definitions[i].name = "GenMsgCycleTime"
          /\ attribute_definitions[i].obj_type = "CANMessage"

\* the names of the nodes of the bus being parsed, in the order they were added
RECURSIVE NamesOfBus(_)
NamesOfBus(ns) ==
    IF ns = << >> THEN << >>
    ELSE (IF Head(ns).bus = canbus THEN <<Head(ns).name>> ELSE << >>)
           \o NamesOfBus(Tail(ns))

\* C15: a node list, then a message record sent by a listed node, then a
\* signal record received by listed nodes, each read by the record grammars.
\* The node list read into a bus without nodes leaves exactly the listed nodes
\* in listed order; the message record read into a bus without messages then
\* leaves exactly one message of that bus, with the given id, length and
\* sender; the signal record read next is accepted and leaves that message
\* with exactly one signal, of the given name, start bit, length and factor,
\* little-endian for code 1, unsigned for sign +, with the given receivers.
C15_NodesMessageSignalScenario ==
    [][\A l \in Stripped :
          (force_parser = "False" /\ pc = "reading"
             /\ l.layout \in {"BU_", "BO_", "SG_"} /\ Line(l))
            => /\ (Matches(l, "BU_") /\ NamesOfBus(nodes) = << >>)
                    => /\ pc' = "reading"
                       /\ NamesOfBus(nodes') = l.nodes
                       /\ UNCHANGED <<canbus, buses, messages>>
               /\ (/\ Matches(l, "BO_")
                   /\ \E i \in 1..Len(NamesOfBus(nodes)) : NamesOfBus(nodes)[i] = l.sender
                   /\ \A m \in 1..Len(messages) : messages[m].bus # canbus)
                    => /\ pc' = "reading"
                       /\ Len(messages') = Len(messages) + 1
                       /\ SubSeq(messages', 1, Len(messages)) = messages
                       /\ LET m == messages'[Len(messages')]
                          IN  /\ m.bus = canbus /\ m.can_id = l.can_id
                              /\ m.length = l.length /\ m.name = l.name
                              /\ nodes[m.sender].name = l.sender
                              /\ nodes[m.sender].bus = canbus
                              /\ m.signals = << >>
                       /\ mode' = <<"MESSAGE", MessagePayload(Len(messages'))>>
                       /\ UNCHANGED <<canbus, buses, nodes>>
               /\ (/\ Matches(l, "SG_") /\ IsFloat(l.factor)
                   /\ mode[1] = "MESSAGE"
                   /\ messages[mode[2].ref].bus = canbus
                   /\ messages[mode[2].ref].signals = << >>
                   /\ \A r \in 1..Len(l.receivers) :
                        \E i \in 1..Len(NamesOfBus(nodes)) :
                            NamesOfBus(nodes)[i] = l.receivers[r])
                    => /\ pc' = "reading"
                       /\ \A m \in 1..Len(messages) :
                            m # mode[2].ref => messages'[m] = messages[m]
                       /\ Len(messages') = Len(messages)
                       /\ Len(messages'[mode[2].ref].signals) = 1
                       /\ LET sig == messages'[mode[2].ref].signals[1]
                          IN  /\ sig.name = l.name /\ sig.start_bit = l.start_bit
                              /\ sig.length = l.length /\ sig.factor = l.factor
                              /\ sig.little_endian = (l.endianness = "1")
                              /\ sig.signed = (l.sign # "+")
                              /\ Len(sig.receivers) = Len(l.receivers)
                              /\ \A r \in 1..Len(l.receivers) :
                                   /\ nodes[sig.receivers[r]].name = l.receivers[r]
                                   /\ nodes[sig.receivers[r]].bus = canbus
                       /\ UNCHANGED <<canbus, buses, nodes>>]_vars

\* the graph after exactly the three records: two nodes, one message, one signal
C15_Witness ==
    /\ pc = "reading" /\ handler = "parse_signal" /\ nparses = 1 /\ nlines = 3
    /\ NamesOfBus(nodes) = <<"A", "B">>
    /\ Len(messages) = 1 /\ nodes[messages[1].sender].name = "A"
    /\ Len(messages[1].signals) = 1
    /\ messages[1].signals[1].little_endian
    /\ ~messages[1].signals[1].signed
    /\ messages[1].signals[1].receivers = <<1, 2>>

\* no keyword of the table is the beginning of another keyword of the table
NoKeywordIsPrefix ==
    \A j, k \in DOMAIN keywords : j # k => ~StartsWith(Literal[j], Literal[k])

\* C16: no keyword of the table is a prefix of another, so a line starts with
\* at most one of them; a line read while a description is open goes to the
\* continuation handler, any other line to the grammar of every keyword it
\* starts with, which is one grammar or none, whichever key is looked at first.
C16_DispatchIsDeterministic ==
    [][/\ NoKeywordIsPrefix
       /\ \A l \in Stripped :
            (pc = "reading" /\ handler' = Route(l) /\ Line(l))
              => /\ Cardinality(MatchingKeys(l)) <= 1
                 /\ IF force_parser # "False"
                    THEN handler' = "parse_multiline_description"
                    ELSE /\ \A k \in MatchingKeys(l) : handler' = keywords[k]
                         /\ MatchingKeys(l) = {} => handler' = "ignored"]_vars

\* a BS_ line, whose first letter four keywords share, read by its own grammar
C16_Witness ==
    /\ pc = "reading" /\ handler = "parse_bus_configuration"
    /\ buses[canbus].speed = "500"

\* C17: the continuation handler is installed exactly when the mode tag is
\* MULTILINE_DESCRIPTION; the payload of the mode is a message exactly when
\* the tag is MESSAGE, a pair of target and buffer exactly when it is
\* MULTILINE_DESCRIPTION and None exactly when it is NORMAL.
C17_ModeAndHandlerAgree ==
    /\ mode[1] \in {"NORMAL", "MESSAGE", "MULTILINE_DESCRIPTION"}
    /\ force_parser \in {"False", "parse_multiline_description"}
    /\ (force_parser # "False") <=> (mode[1] = "MULTILINE_DESCRIPTION")
    /\ (mode[2].kind = "message") <=> (mode[1] = "MESSAGE")
    /\ (mode[2].kind = "pair") <=> (mode[1] = "MULTILINE_DESCRIPTION")
    /\ (mode[2].kind = "None") <=> (mode[1] = "NORMAL")
    /\ mode[1] = "MESSAGE" => mode[2].ref \in 1..Len(messages)

\* a description opened in one parse and still open in the next one
C17_Witness ==
    /\ nparses = 2 /\ pc = "reading" /\ handler = "parse_multiline_description"
    /\ mode[1] = "MULTILINE_DESCRIPTION" /\ force_parser = "parse_multiline_description"
    /\ Len(mode[2].buffer) >= 3

\* C18: when the input ends while a description is open, parse_file returns
\* the graph with no error and with the graph as it was; and the description
\* of the target, now part of a graph that was returned, is never assigned:
\* no later step changes it.
C18_OpenDescriptionIsDropped ==
    [][/\ (pc = "reading" /\ force_parser # "False" /\ pc' = "returned")
            => (exc' = "None" /\ UNCHANGED graph)
       /\ (force_parser # "False" /\ mode[1] = "MULTILINE_DESCRIPTION")
            => LET t == mode[2].target
                   bus == CASE t.kind = "bus" -> t.ref
                            [] t.kind = "node" -> nodes[t.ref].bus
                            [] OTHER -> messages[t.ref].bus
               IN  bus # canbus
                     => DescriptionAt(buses', nodes', messages', t)
                          = DescriptionAt(buses, nodes, messages, t)]_vars

\* C19: while no description is open, a line whose first word starts with a
\* keyword and goes on (BO_TX_BU_, BA_DEF_DEF_, BU_SG_REL_, SG_MUL_VAL_) is
\* handed to the grammar of that keyword, matches no pattern there and ends
\* the parse with an error, the graph and the mode left as they were.
C19_LongerKeywordAborts ==
    [][\A l \in Stripped : \A k \in DOMAIN keywords :
          (force_parser = "False" /\ pc = "reading"
             /\ StartsWith(l.head, Literal[k]) /\ l.head # Literal[k] /\ Line(l))
            => /\ handler' = keywords[k]
               /\ pc' = "raised" /\ exc' = "AttributeError"
               /\ UNCHANGED <<graph, mode, force_parser>>]_vars

\* a BA_DEF_DEF_ record that ended the parse in the attribute grammar while a
\* message was open
C19_Witness ==
    /\ pc = "raised" /\ exc = "AttributeError"
    /\ handler = "parse_attribute_definition"
    /\ mode[1] = "MESSAGE" /\ attribute_definitions = << >>

====
